---- MODULE Spec2Model ----
(***************************************************************************)
(* A model of jormungandr's network module (src/network/mod.rs): the       *)
(* shared GlobalState (client counter, peer registry), the connection      *)
(* lifecycle driver connect_and_propagate, the propagation and gossip      *)
(* schedulers, and the startup bootstrap loop over the trusted peers.      *)
(*                                                                         *)
(* Spec       : the network task and the connection tasks it spawns.       *)
(* SpecEvict  : Spec, with evictions carried out when an attempt registers. *)
(* SpecInput  : the command loop over the messages waiting in its queue.   *)
(* SpecCounter: dec_client_count at every value of the counter.            *)
(* SpecBoot   : the blocking startup call bootstrap.                       *)
(* SpecFetch  : the blocking startup call fetch_block.                     *)
(* SpecStartup: either of the two calls.                                   *)
(***************************************************************************)
EXTENDS Integers, Sequences, FiniteSets, TLC

VARIABLES
    client_count,   \* GlobalState.client_count
    registry,       \* GlobalState.peers: a set of [node, state, att] entries
    attempts,       \* every connection task spawned by connect_and_propagate
    net_task,       \* the task running handle_network_input and the gossip interval
    cmds,           \* number of Propagate commands taken from the input queue
    prop,           \* what the last handle_propagation_msg did
    gossip,         \* the send_gossip round in progress
    glog,           \* what each send_gossip step did
    startup,        \* the task running start_gossiping
    boot,           \* the blocking call of the startup thread
    input           \* the network-input MessageQueue, and what was taken from it

vars == <<client_count, registry, attempts, net_task, cmds, prop, gossip, glog,
          startup, boot, input>>

net_vars == <<client_count, registry, attempts, net_task, cmds, prop, gossip,
              glog, startup, input>>

----------------------------------------------------------------------------
(* Bounds of the model *)

\* connection tasks ever spawned
MaxAttempts == 3
\* activations of the schedulers: commands handled, gossip ticks, startup gossip
MaxEvents == 2
\* largest value of the counter's type (usize), scaled down
UsizeMax == 7
\* config.max_client_connections
max_client_connections == 1
\* config.max_connections
max_connections == 2
\* trusted peers configured
MaxTrusted == 3

\* a topology view can hold more peers than the client connection limit
MaxView == max_client_connections + 1

----------------------------------------------------------------------------
(* Values *)

None == "None"

\* Option<Gossip>::None
NoGossip == <<>>

\* topology.node_id(): the local node
local_node_id == "self"

\* node identifiers a topology view can hold
NodeIds == {"A", "B", "self", "N", "C"}

\* Node::address(): node N is known by identifier only
address(node) == IF node = "N" THEN None ELSE <<"addr", node>>

\* the identifiers a dialed peer can advertise: the expected one, or another
RemoteIds(node) == {node, "X"}

\* PropagateMsg
PropagateMsgs == {[kind |-> "Block", item |-> "h1"],
                  [kind |-> "Fragment", item |-> "f1"]}

Min(a, b) == IF a < b THEN a ELSE b
Max(a, b) == IF a > b THEN a ELSE b

\* the order in which the topology lists the nodes it knows
Known == <<"A", "B", "self", "N", "C">>

IsIncreasing(s) == \A i, j \in DOMAIN s : i < j => s[i] < s[j]

\* the peers of a topology view: distinct nodes, at most MaxView of them
Views == {[i \in DOMAIN s |-> Known[s[i]]] :
            s \in {t \in UNION {[1..k -> DOMAIN Known] : k \in 0..MaxView} :
                     IsIncreasing(t)}}

Range(s) == {s[i] : i \in DOMAIN s}

\* Vec::truncate
truncate(s, n) == SubSeq(s, 1, Min(Len(s), n))

----------------------------------------------------------------------------
(* GlobalState: the client counter *)

inc_client_count_skips(count) == count

\* fetch_add(1): wraps at the width of the counter
inc_client_count(count) == (count + 1) % (UsizeMax + 1)

\* fetch_sub(1): wraps; the assertion on the previous value is in Close
dec_client_count(count) == (count + UsizeMax) % (UsizeMax + 1)

dec_asserts_nothing(prev_count) == TRUE

\* assert!(prev_count != 0)
dec_asserts(prev_count) == prev_count # 0

saturating_add(a, b) == IF a + b > UsizeMax THEN UsizeMax ELSE a + b

num_clients_to_bump_wraps(count) ==
    LET c == (count + 1) % (UsizeMax + 1)
    IN  IF c > max_client_connections THEN c - max_client_connections ELSE 0

num_clients_to_bump(count) ==
    LET c == saturating_add(count, 1)
    IN  IF c > max_client_connections THEN c - max_client_connections ELSE 0

----------------------------------------------------------------------------
(* ConnectOptions *)

DefaultOptions ==
    [pending_block_announcement |-> None,
     pending_fragment |-> None,
     pending_gossip |-> NoGossip,
     evict_clients |-> 0]

\* the options handle_propagation_msg builds for an unreached node
PropagateOptions(msg) ==
    IF msg.kind = "Block"
    THEN [DefaultOptions EXCEPT !.pending_block_announcement = msg.item]
    ELSE [DefaultOptions EXCEPT !.pending_fragment = msg.item]

GossipOptions_dropped(g) == DefaultOptions

\* the options send_gossip and start_gossiping build
GossipOptions(g) == [DefaultOptions EXCEPT !.pending_gossip = g]

----------------------------------------------------------------------------
(* The peer registry (p2p::comm::Peers) *)

Entry(node, state, att) == [node |-> node, state |-> state, att |-> att]

HasState(reg, node, state) == \E e \in reg : e.node = node /\ e.state = state

\* the attempts whose Connecting entry is in `dropped`
CanceledBy(dropped) == {e.att : e \in {d \in dropped : d.state = "Connecting"}}

\* dropping a Connecting entry drops its handle: a connect in flight is canceled
Cancel(atts, ids) ==
    [a \in DOMAIN atts |->
        IF a \in ids /\ atts[a].pc = "dialing"
        THEN [atts[a] EXCEPT !.canceled = TRUE]
        ELSE atts[a]]

add_connecting_keeps(reg, node, att, evicted) ==
    (reg \ evicted) \cup {Entry(node, "Connecting", att)}

\* Peers::add_connecting, on success: the entry replaces the node's entry
add_connecting(reg, node, att, evicted) ==
    ({e \in reg : e.node # node} \ evicted) \cup {Entry(node, "Connecting", att)}

\* Peers::add_connecting fails when the registry is full after the evictions
at_capacity(reg, node, nevicted) ==
    Cardinality({e \in reg : e.node # node}) - nevicted >= max_connections

\* Peers::remove_peer
remove_peer(reg, node) == {e \in reg : e.node # node}

propagate_with_connecting(reg, peers, item) ==
    LET live(n) == \E e \in reg : e.node = n
        unreached == SelectSeq(peers, LAMBDA n : ~live(n))
    IN  [ok |-> unreached = <<>>, item |-> item,
         delivered |-> SelectSeq(peers, live), unreached |-> unreached]

\* the peers served through a live connection, and the ones that are not, in
\* the list's order; Ok only when every peer was served
propagate_with(reg, peers, item) ==
    LET live(n) == HasState(reg, n, "Connected")
        unreached == SelectSeq(peers, LAMBDA n : ~live(n))
    IN  [ok |-> unreached = <<>>, item |-> item,
         delivered |-> SelectSeq(peers, live), unreached |-> unreached]

\* Peers::propagate_block
propagate_block(reg, peers, header) == propagate_with(reg, peers, header)

\* Peers::propagate_fragment
propagate_fragment(reg, peers, fragment) == propagate_with(reg, peers, fragment)

\* Peers::propagate_gossip_to: Ok, or Err giving the gossip back
propagate_gossip_to(reg, node, g) ==
    IF HasState(reg, node, "Connected")
    THEN [ok |-> TRUE, gossip |-> NoGossip]
    ELSE [ok |-> FALSE, gossip |-> g]

----------------------------------------------------------------------------
(* connect_and_propagate: the synchronous part, run by the caller *)

\* the connection task as spawned: add_connecting has not run yet
NewAttempt(node, options, count) ==
    [node |-> node,
     options |-> [options EXCEPT !.evict_clients = num_clients_to_bump(count)],
     count_at_create |-> count,
     pc |-> "spawned",
     canceled |-> FALSE,
     err |-> None,
     remote |-> None,
     reported |-> <<>>,
     removed |-> <<>>,
     inc |-> 0,
     dec |-> 0]

connect_and_propagate_unchecked(st, node, options, count) ==
    IF st.panicked THEN st
    ELSE IF address(node) = None THEN st
    ELSE [st EXCEPT !.attempts = Append(@, NewAttempt(node, options, count))]

connect_and_propagate_dials_unaddressed(st, node, options, count) ==
    IF st.panicked THEN st
    ELSE IF address(node) # None /\ node = local_node_id
         THEN [st EXCEPT !.panicked = TRUE]
    ELSE [st EXCEPT !.attempts = Append(@, NewAttempt(node, options, count))]

connect_and_propagate_unwraps(st, node, options, count) ==
    IF st.panicked THEN st
    ELSE IF address(node) = None \/ node = local_node_id
         THEN [st EXCEPT !.panicked = TRUE]
    ELSE [st EXCEPT !.attempts = Append(@, NewAttempt(node, options, count))]

\* st = [attempts, panicked]: the tasks spawned so far by the caller, and
\* whether the caller has hit the self-connect assertion
connect_and_propagate(st, node, options, count) ==
    IF st.panicked THEN st
    ELSE IF address(node) = None THEN st
    ELSE IF node = local_node_id THEN [st EXCEPT !.panicked = TRUE]
    ELSE [st EXCEPT !.attempts = Append(@, NewAttempt(node, options, count))]

\* for node in nodes { connect_and_propagate(node, .., options) }
RECURSIVE ConnectEach(_, _, _, _)
ConnectEach(st, nodes, options, count) ==
    IF nodes = <<>> THEN st
    ELSE ConnectEach(connect_and_propagate(st, Head(nodes), options, count),
                     Tail(nodes), options, count)

Caller(atts) == [attempts |-> atts, panicked |-> FALSE]

\* scheduler activations so far
Events == cmds + gossip.round + (IF startup = "pending" THEN 0 ELSE 1)

----------------------------------------------------------------------------
(* handle_network_input: NetworkMsg::Propagate *)

unreached_nodes_untruncated(unreached) == unreached

unreached_nodes_one_more(unreached) ==
    truncate(unreached, max_client_connections + 1)

\* unreached_nodes.truncate(state.config.max_client_connections)
unreached_nodes(unreached) == truncate(unreached, max_client_connections)

handle_propagation_msg(msg, view) ==
    /\ net_task = "running"
    /\ Events < MaxEvents
    /\ LET res == IF msg.kind = "Block"
                  THEN propagate_block(registry, view, msg.item)
                  ELSE propagate_fragment(registry, view, msg.item)
           st  == IF res.ok
                  THEN Caller(attempts)
                  ELSE ConnectEach(Caller(attempts), unreached_nodes(res.unreached),
                                   PropagateOptions(msg), client_count)
       IN  /\ Len(st.attempts) <= MaxAttempts
           /\ attempts' = st.attempts
           /\ net_task' = IF st.panicked THEN "panicked" ELSE "running"
           /\ prop' = [msg |-> msg, view |-> view, ok |-> res.ok, sent |-> res.item,
                       delivered |-> res.delivered, unreached |-> res.unreached,
                       first |-> Len(attempts), n |-> Len(st.attempts) - Len(attempts)]
    /\ cmds' = cmds + 1
    /\ UNCHANGED <<client_count, registry, gossip, glog, startup, boot>>

\* the input queue when nothing waits in it
NoInput == [queue |-> <<>>, taken |-> <<>>]

\* a Propagate message arrives on the empty queue and is handled at once
ReceivePropagate(msg, view) ==
    /\ input.queue = <<>>
    /\ handle_propagation_msg(msg, view)
    /\ UNCHANGED input

\* the messages that can wait in the queue when the loop polls it
InputQueues == UNION {[1..k -> PropagateMsgs] : k \in 0..MaxEvents}

handle_network_input_any(view) ==
    \E i \in DOMAIN input.queue :
        /\ handle_propagation_msg(input.queue[i], view)
        /\ input' = [queue |-> SubSeq(input.queue, 1, i - 1)
                                  \o SubSeq(input.queue, i + 1, Len(input.queue)),
                     taken |-> Append(input.taken, input.queue[i])]

\* input.for_each: the next message is taken when the handling of the
\* previous one has completed
handle_network_input(view) ==
    /\ input.queue # <<>>
    /\ handle_propagation_msg(Head(input.queue), view)
    /\ input' = [queue |-> Tail(input.queue),
                 taken |-> Append(input.taken, Head(input.queue))]

----------------------------------------------------------------------------
(* start_gossiping and send_gossip *)

\* Gossip::from_nodes(iter::once(self_node))
SelfGossip == <<"gossip", local_node_id>>

\* topology.initiate_gossips(peer_id): the batch for this peer, this round
initiate_gossips(peer_id, round) == <<"gossip", peer_id, round>>

\* the startup task: a connection to every peer of the view, announcing self
start_gossiping(view) ==
    /\ startup = "pending"
    /\ Events < MaxEvents
    /\ LET st == ConnectEach(Caller(attempts), view, GossipOptions(SelfGossip),
                             client_count)
       IN  /\ Len(st.attempts) <= MaxAttempts
           /\ attempts' = st.attempts
           /\ startup' = IF st.panicked THEN "panicked" ELSE "done"
    /\ UNCHANGED <<client_count, registry, net_task, cmds, prop, gossip, glog, boot, input>>

gossip_peers_untruncated(view) == view

\* peers.truncate(state.config.max_client_connections)
gossip_peers(view) == truncate(view, max_client_connections)

\* a tick of the gossip interval: send_gossip takes a view
GossipTick(view) ==
    /\ net_task = "running"
    /\ gossip.targets = <<>>
    /\ Events < MaxEvents
    /\ gossip' = [round |-> gossip.round + 1, targets |-> gossip_peers(view),
                  view |-> view]
    /\ UNCHANGED <<client_count, registry, attempts, net_task, cmds, prop, glog,
                   startup, boot, input>>

\* send_gossip, one peer of the round: initiate_gossips, propagate_gossip_to,
\* and a connection carrying the gossip when that fails
GossipStep ==
    /\ net_task = "running"
    /\ gossip.targets # <<>>
    /\ LET node == Head(gossip.targets)
           g    == initiate_gossips(node, gossip.round)
           res  == propagate_gossip_to(registry, node, g)
           st   == IF res.ok
                   THEN Caller(attempts)
                   ELSE connect_and_propagate(Caller(attempts), node,
                                              GossipOptions(res.gossip), client_count)
       IN  /\ Len(st.attempts) <= MaxAttempts
           /\ attempts' = st.attempts
           /\ net_task' = IF st.panicked THEN "panicked" ELSE "running"
           /\ glog' = Append(glog, [round |-> gossip.round, target |-> node,
                                    gossip |-> g, ok |-> res.ok,
                                    att |-> IF Len(st.attempts) > Len(attempts)
                                            THEN Len(st.attempts) ELSE 0])
    /\ gossip' = [gossip EXCEPT !.targets = Tail(@)]
    /\ UNCHANGED <<client_count, registry, cmds, prop, startup, boot, input>>

----------------------------------------------------------------------------
(* The connection task: add_connecting, then the connect future *)

benign_never(e) == FALSE

benign_registry(e) == e \in {"Canceled", "Registry"}

benign_connect(e) == e \in {"Canceled", "Connect"}

\* the or_else closure's classification of a ConnectError
benign(e) ==
    CASE e = "Connect"  -> FALSE
      [] e = "Canceled" -> TRUE
      [] OTHER          -> FALSE

\* the or_else closure: a benign error ends the task, any other is reported
OnError(att, e) ==
    [att EXCEPT !.err = e, !.pc = IF benign(e) THEN "failed" ELSE "failing"]

\* state.peers.add_connecting(node_id, handle, options)
Register(a) ==
    /\ attempts[a].pc = "spawned"
    /\ LET node      == attempts[a].node
           connected == {e \in registry : e.node # node /\ e.state = "Connected"}
           nevicted  == Min(attempts[a].options.evict_clients, Cardinality(connected))
       IN  \E evicted \in {s \in SUBSET connected : Cardinality(s) = nevicted} :
              IF at_capacity(registry, node, nevicted)
              THEN /\ attempts' = [attempts EXCEPT ![a] = OnError(@, "Registry")]
                   /\ registry' = registry
              ELSE /\ registry' = add_connecting(registry, node, a, evicted)
                   /\ attempts' =
                        [Cancel(attempts, CanceledBy(registry \ registry'))
                            EXCEPT ![a].pc = "dialing"]
    /\ UNCHANGED <<client_count, net_task, cmds, prop, gossip, glog, startup, boot, input>>

\* the connect future fails: a transport error, a canceled handle, another error
DialFail(a, e) ==
    /\ attempts[a].pc = "dialing"
    /\ e \in IF attempts[a].canceled THEN {"Canceled"} ELSE {"Connect", "Other"}
    /\ attempts' = [attempts EXCEPT ![a] = OnError(@, e)]
    /\ UNCHANGED <<client_count, registry, net_task, cmds, prop, gossip, glog,
                   startup, boot, input>>

verify_skipped(connected_node_id, node_id) == TRUE

\* connected_node_id != node_id, negated
verify(connected_node_id, node_id) == connected_node_id = node_id

\* the connect future resolves to a client: the and_then closure
DialOk(a, remote) ==
    /\ attempts[a].pc = "dialing"
    /\ ~attempts[a].canceled
    /\ remote \in RemoteIds(attempts[a].node)
    /\ registry' = {IF e.att = a /\ e.state = "Connecting"
                    THEN Entry(e.node, "Connected", a) ELSE e : e \in registry}
    /\ IF verify(remote, attempts[a].node)
       THEN /\ client_count' = inc_client_count(client_count)
            /\ attempts' = [attempts EXCEPT ![a].remote = remote,
                                            ![a].pc = "established",
                                            ![a].inc = @ + 1]
       ELSE /\ client_count' = client_count
            /\ attempts' = [attempts EXCEPT ![a].remote = remote,
                                            ![a].pc = "rejecting"]
    /\ UNCHANGED <<net_task, cmds, prop, gossip, glog, startup, boot, input>>

\* the StrikeReason each failure path reports
strike_reason(pc) == IF pc = "failing" THEN "CannotConnect" ELSE "InvalidPublicId"

\* topology.report_node(node_id, reason).join(peers.remove_peer(node_id))
ReportAndRemove(a) ==
    /\ attempts[a].pc \in {"failing", "rejecting"}
    /\ registry' = remove_peer(registry, attempts[a].node)
    /\ attempts' =
         [Cancel(attempts, CanceledBy(registry \ registry')) EXCEPT
            ![a].reported = Append(@, [node |-> attempts[a].node,
                                       reason |-> strike_reason(attempts[a].pc)]),
            ![a].removed = Append(@, attempts[a].node),
            ![a].pc = "failed"]
    /\ UNCHANGED <<client_count, net_task, cmds, prop, gossip, glog, startup, boot, input>>

\* client.then(|res| { state.dec_client_count(); res }): the channel terminates
Close(a) ==
    /\ attempts[a].pc = "established"
    /\ client_count' = dec_client_count(client_count)
    /\ attempts' = [attempts EXCEPT
                      ![a].pc = IF dec_asserts(client_count) THEN "closed" ELSE "panicked",
                      ![a].dec = @ + 1]
    /\ registry' = registry \ {Entry(attempts[a].node, "Connected", a)}
    /\ UNCHANGED <<net_task, cmds, prop, gossip, glog, startup, boot, input>>

----------------------------------------------------------------------------

NoProp == [msg |-> [kind |-> "None", item |-> None], view |-> <<>>, ok |-> TRUE, sent |-> None,
           delivered |-> <<>>, unreached |-> <<>>, first |-> 0, n |-> 0]

Init ==
    /\ client_count = 0
    /\ registry = {}
    /\ attempts = <<>>
    /\ net_task = "running"
    /\ cmds = 0
    /\ prop = NoProp
    /\ gossip = [round |-> 0, targets |-> <<>>, view |-> <<>>]
    /\ glog = <<>>
    /\ startup = "pending"
    /\ boot = None
    /\ input = NoInput

Next ==
    \/ \E msg \in PropagateMsgs, view \in Views : ReceivePropagate(msg, view)
    \/ \E view \in Views : start_gossiping(view)
    \/ \E view \in Views : GossipTick(view)
    \/ GossipStep
    \/ \E a \in DOMAIN attempts : Register(a)
    \/ \E a \in DOMAIN attempts, e \in {"Connect", "Canceled", "Other"} : DialFail(a, e)
    \/ \E a \in DOMAIN attempts, remote \in NodeIds \cup {"X"} : DialOk(a, remote)
    \/ \E a \in DOMAIN attempts : ReportAndRemove(a)
    \/ \E a \in DOMAIN attempts : Close(a)

Spec == Init /\ [][Next]_vars

\* add_connecting under the reading that an eviction is carried out at once:
\* the connections it evicts are closed, and so leave the counter, in the
\* step that registers the attempt
RegisterEvicting(a) ==
    /\ attempts[a].pc = "spawned"
    /\ LET node      == attempts[a].node
           connected == {e \in registry : /\ e.node # node
                                          /\ e.state = "Connected"
                                          /\ attempts[e.att].pc = "established"}
           nevicted  == Min(attempts[a].options.evict_clients, Cardinality(connected))
       IN  \E evicted \in {s \in SUBSET connected : Cardinality(s) = nevicted} :
              IF at_capacity(registry, node, nevicted)
              THEN /\ attempts' = [attempts EXCEPT ![a] = OnError(@, "Registry")]
                   /\ registry' = registry
                   /\ client_count' = client_count
              ELSE /\ registry' = add_connecting(registry, node, a, evicted)
                   /\ client_count' = client_count - nevicted
                   /\ attempts' =
                        LET canceled == Cancel(attempts, CanceledBy(registry \ registry'))
                        IN  [b \in DOMAIN attempts |->
                               IF b = a THEN [canceled[b] EXCEPT !.pc = "dialing"]
                               ELSE IF b \in {e.att : e \in evicted}
                                    THEN [canceled[b] EXCEPT !.pc = "closed", !.dec = @ + 1]
                               ELSE canceled[b]]
    /\ UNCHANGED <<net_task, cmds, prop, gossip, glog, startup, boot, input>>

NextEvict ==
    \/ \E msg \in PropagateMsgs, view \in Views : ReceivePropagate(msg, view)
    \/ \E view \in Views : start_gossiping(view)
    \/ \E view \in Views : GossipTick(view)
    \/ GossipStep
    \/ \E a \in DOMAIN attempts : RegisterEvicting(a)
    \/ \E a \in DOMAIN attempts, e \in {"Connect", "Canceled", "Other"} : DialFail(a, e)
    \/ \E a \in DOMAIN attempts, remote \in NodeIds \cup {"X"} : DialOk(a, remote)
    \/ \E a \in DOMAIN attempts : ReportAndRemove(a)
    \/ \E a \in DOMAIN attempts : Close(a)

SpecEvict == Init /\ [][NextEvict]_vars

\* the command loop started with messages waiting in its queue
InitInput ==
    /\ client_count = 0
    /\ registry = {}
    /\ attempts = <<>>
    /\ net_task = "running"
    /\ cmds = 0
    /\ prop = NoProp
    /\ gossip = [round |-> 0, targets |-> <<>>, view |-> <<>>]
    /\ glog = <<>>
    /\ startup = "pending"
    /\ boot = None
    /\ input \in {[queue |-> q, taken |-> <<>>] : q \in InputQueues}

NextInput ==
    \/ \E view \in Views : handle_network_input(view)
    \/ \E a \in DOMAIN attempts : Register(a)
    \/ \E a \in DOMAIN attempts, e \in {"Connect", "Canceled", "Other"} : DialFail(a, e)
    \/ \E a \in DOMAIN attempts, remote \in NodeIds \cup {"X"} : DialOk(a, remote)
    \/ \E a \in DOMAIN attempts : ReportAndRemove(a)
    \/ \E a \in DOMAIN attempts : Close(a)

SpecInput == InitInput /\ [][NextInput]_vars

\* a connection task that holds its client open, as DialOk leaves it
Held(node) ==
    [NewAttempt(node, DefaultOptions, 0) EXCEPT
        !.pc = "established", !.remote = node, !.inc = 1]

\* dec_client_count applied at every value of the counter: the connection
\* tasks hold their clients, the counter is any value of its type
InitCounter ==
    /\ client_count \in 0..UsizeMax
    /\ registry = {}
    /\ attempts \in UNION {[1..k -> {Held(node) : node \in {"A", "B"}}] :
                               k \in 1..MaxAttempts}
    /\ net_task = "running"
    /\ cmds = 0
    /\ prop = NoProp
    /\ gossip = [round |-> 0, targets |-> <<>>, view |-> <<>>]
    /\ glog = <<>>
    /\ startup = "pending"
    /\ boot = None
    /\ input = NoInput

NextCounter == \E a \in DOMAIN attempts : Close(a)

SpecCounter == InitCounter /\ [][NextCounter]_vars

----------------------------------------------------------------------------
(* bootstrap: the blocking startup call over the trusted peers *)

\* addresses a trusted peer can be configured with
Addresses == {"ip1", "ip2", "ip3", "dns1"}

\* Address::to_socketaddr: a name is not a socket address
to_socketaddr(addr) == IF addr = "dns1" THEN None ELSE <<"sock", addr>>

\* config.trusted_peers
TrustedPeerLists ==
    {s \in UNION {[1..k -> Addresses] : k \in 0..MaxTrusted} :
        \A i, j \in DOMAIN s : s[i] = s[j] => i = j}

\* every order of the elements of s
Shuffles(s) ==
    {[i \in DOMAIN s |-> s[p[i]]] :
        p \in {q \in [DOMAIN s -> DOMAIN s] : \A i, j \in DOMAIN s : q[i] = q[j] => i = j}}

\* the addresses that resolve, in any order (peers.shuffle)
trusted_peers_shuffled(trusted_peers) ==
    Shuffles(SelectSeq(trusted_peers, LAMBDA addr : to_socketaddr(addr) # None))

no_peer_resolves(trusted_peers) ==
    SelectSeq(trusted_peers, LAMBDA addr : to_socketaddr(addr) # None) = <<>>

\* config.trusted_peers.is_empty()
is_empty(trusted_peers) == trusted_peers = <<>>

\* what bootstrap_from_peer can return
BootstrapResults == {"Ok", "Connect", "Other"}

bootstrap_never_breaks(res) == FALSE

bootstrap_breaks_always(res) == TRUE

\* the match arm that breaks out of the loop
bootstrap_breaks(res) == res = "Ok"

BootCall(trusted_peers) ==
    [fn |-> "bootstrap",
     pc |-> "start", trusted_peers |-> trusted_peers, shuffled |-> <<>>,
     rest |-> <<>>, attempted |-> <<>>, results |-> <<>>,
     bootstrapped |-> FALSE, returned |-> None]

\* bootstrap, up to the loop: the empty configuration counts as bootstrapped
BootstrapStart ==
    /\ boot.fn = "bootstrap"
    /\ boot.pc = "start"
    /\ \E order \in trusted_peers_shuffled(boot.trusted_peers) :
          boot' = [boot EXCEPT !.pc = "loop",
                               !.bootstrapped = is_empty(boot.trusted_peers),
                               !.shuffled = order,
                               !.rest = order]
    /\ UNCHANGED net_vars

\* one iteration of the loop: bootstrap_from_peer and the match on its result
BootstrapPeer(res) ==
    /\ boot.fn = "bootstrap"
    /\ boot.pc = "loop"
    /\ boot.rest # <<>>
    /\ boot' = [boot EXCEPT
                  !.attempted = Append(@, Head(boot.rest)),
                  !.results = Append(@, res),
                  !.bootstrapped = IF res = "Ok" THEN TRUE ELSE @,
                  !.rest = IF bootstrap_breaks(res) THEN <<>> ELSE Tail(@)]
    /\ UNCHANGED net_vars

\* Ok(bootstrapped)
BootstrapReturn ==
    /\ boot.fn = "bootstrap"
    /\ boot.pc = "loop"
    /\ boot.rest = <<>>
    /\ boot' = [boot EXCEPT !.pc = "done",
                            !.returned = [ok |-> TRUE, value |-> boot.bootstrapped]]
    /\ UNCHANGED net_vars

InitBoot ==
    /\ client_count = 0
    /\ registry = {}
    /\ attempts = <<>>
    /\ net_task = "running"
    /\ cmds = 0
    /\ prop = NoProp
    /\ gossip = [round |-> 0, targets |-> <<>>, view |-> <<>>]
    /\ glog = <<>>
    /\ startup = "pending"
    /\ boot \in {BootCall(trusted_peers) : trusted_peers \in TrustedPeerLists}
    /\ input = NoInput

NextBoot ==
    \/ BootstrapStart
    \/ \E res \in BootstrapResults : BootstrapPeer(res)
    \/ BootstrapReturn

SpecBoot == InitBoot /\ [][NextBoot]_vars

----------------------------------------------------------------------------
(* fetch_block: the blocking startup call that downloads block 0 *)

\* the hash prepare_block_0 asks for
HeaderHashes == {"h0", "h1"}

\* the blocks a peer can deliver
Blocks == {"blockA", "blockB"}

\* what grpc::fetch_block can return from a peer: an error, or Ok(b)
FetchResults == {"Connect", "Other"} \cup Blocks

\* the socket addresses of the configurable peers
SocketPeers == {addr \in Addresses : to_socketaddr(addr) # None}

\* Result::Ok
Ok(v) == <<"Ok", v>>

\* FetchBlockError::NoTrustedPeers
NoTrustedPeers == <<"Err", "NoTrustedPeers">>

\* FetchBlockError::CouldNotDownloadBlock { block }
CouldNotDownloadBlock(block) == <<"Err", "CouldNotDownloadBlock", block>>

fetch_breaks_always(res) == TRUE

fetch_never_breaks(res) == FALSE

\* the match arm that breaks out of the loop: Ok(b)
fetch_breaks(res) == res \in Blocks

\* answers: what each peer returns if it is asked for the block
FetchCall(trusted_peers, hash, answers) ==
    [fn |-> "fetch_block",
     pc |-> "start", trusted_peers |-> trusted_peers, hash |-> hash,
     answers |-> answers, shuffled |-> <<>>, rest |-> <<>>,
     attempted |-> <<>>, results |-> <<>>, block |-> None, returned |-> <<>>]

\* fetch_block, up to the loop: no trusted peer configured is an error
FetchBlockStart ==
    /\ boot.fn = "fetch_block"
    /\ boot.pc = "start"
    /\ IF is_empty(boot.trusted_peers)
       THEN boot' = [boot EXCEPT !.pc = "done", !.returned = NoTrustedPeers]
       ELSE \E order \in trusted_peers_shuffled(boot.trusted_peers) :
               boot' = [boot EXCEPT !.pc = "loop",
                                    !.shuffled = order,
                                    !.rest = order]
    /\ UNCHANGED net_vars

\* one iteration of the loop: grpc::fetch_block and the match on its result
FetchBlockPeer ==
    /\ boot.fn = "fetch_block"
    /\ boot.pc = "loop"
    /\ boot.rest # <<>>
    /\ LET res == boot.answers[Head(boot.rest)]
       IN  boot' = [boot EXCEPT
                      !.attempted = Append(@, Head(boot.rest)),
                      !.results = Append(@, res),
                      !.block = IF res \in Blocks THEN res ELSE @,
                      !.rest = IF fetch_breaks(res) THEN <<>> ELSE Tail(@)]
    /\ UNCHANGED net_vars

\* Ok(block), or CouldNotDownloadBlock for the requested hash
FetchBlockReturn ==
    /\ boot.fn = "fetch_block"
    /\ boot.pc = "loop"
    /\ boot.rest = <<>>
    /\ boot' = [boot EXCEPT !.pc = "done",
                            !.returned = IF boot.block # None
                                         THEN Ok(boot.block)
                                         ELSE CouldNotDownloadBlock(boot.hash)]
    /\ UNCHANGED net_vars

InitFetch ==
    /\ client_count = 0
    /\ registry = {}
    /\ attempts = <<>>
    /\ net_task = "running"
    /\ cmds = 0
    /\ prop = NoProp
    /\ gossip = [round |-> 0, targets |-> <<>>, view |-> <<>>]
    /\ glog = <<>>
    /\ startup = "pending"
    /\ boot \in {FetchCall(trusted_peers, hash, answers) :
                    trusted_peers \in TrustedPeerLists, hash \in HeaderHashes,
                    answers \in [SocketPeers -> FetchResults]}
    /\ input = NoInput

NextFetch ==
    \/ FetchBlockStart
    \/ FetchBlockPeer
    \/ FetchBlockReturn

SpecFetch == InitFetch /\ [][NextFetch]_vars

----------------------------------------------------------------------------
(* The startup thread: one of its blocking calls over the trusted peers *)

InitStartup == InitBoot \/ InitFetch

NextStartup == NextBoot \/ NextFetch

SpecStartup == InitStartup /\ [][NextStartup]_vars

----------------------------------------------------------------------------
(* Properties of the running network (Spec) *)

Atts == DOMAIN attempts

Established == {a \in Atts : attempts[a].pc = "established"}

RECURSIVE SumOver(_, _)
SumOver(f, n) == IF n = 0 THEN 0 ELSE f[n] + SumOver(f, n - 1)

Increments == SumOver([a \in Atts |-> attempts[a].inc], Len(attempts))
Decrements == SumOver([a \in Atts |-> attempts[a].dec], Len(attempts))

\* the registry entries that belong to attempt a
EntriesOf(a) == {e \in registry : e.att = a}

\* C1: client_count is the number of increments minus the number of
\* decrements and never drops below zero (the decrement assertion never
\* fails); only a task that connected to a peer advertising the expected
\* identifier increments it, and such a task decrements it once, when its
\* channel terminates, so the counter is the number of connections held open.
ClientCountIsNet ==
    /\ client_count = Increments - Decrements
    /\ client_count = Cardinality(Established)
    /\ \A a \in Atts :
        /\ attempts[a].pc # "panicked"
        /\ attempts[a].inc = (IF attempts[a].pc \in {"established", "closed"} THEN 1 ELSE 0)
        /\ attempts[a].dec = (IF attempts[a].pc = "closed" THEN 1 ELSE 0)
        /\ attempts[a].inc = 1 => attempts[a].remote = attempts[a].node

ClientCountIsNet_witness ==
    \E a, b \in Atts :
        /\ attempts[a].pc = "closed"
        /\ attempts[b].pc = "established"
        /\ client_count = 1

\* C2: the registry never holds two entries for one node identifier, and a
\* connect in flight whose Connecting entry is no longer in the registry
\* (replaced by a later add_connecting, or removed) is canceled: the only
\* outcome it can have is Canceled.
OneEntryPerNode ==
    /\ \A e1, e2 \in registry : e1.node = e2.node => e1 = e2
    /\ \A a \in Atts :
        /\ (attempts[a].pc = "dialing" /\ ~attempts[a].canceled)
              => Entry(attempts[a].node, "Connecting", a) \in registry
        /\ attempts[a].canceled
              => \/ attempts[a].pc = "dialing"
                 \/ attempts[a].pc = "failed" /\ attempts[a].err = "Canceled"

OneEntryPerNode_witness ==
    \E a, b \in Atts :
        /\ a # b
        /\ attempts[a].node = attempts[b].node
        /\ attempts[a].canceled
        /\ attempts[a].err = "Canceled"
        /\ Entry(attempts[b].node, "Connecting", b) \in registry

\* C3: a step that handles a Propagate command delivers the item to exactly
\* the peers of the list that have a Connected entry and reports exactly the
\* others (Connecting or absent) as unreached, each once; the result is Ok
\* exactly when nothing is unreached.
PropagateSplitsExactly ==
    [][cmds' # cmds =>
        LET L         == prop'.view
            connected == {n \in Range(L) :
                            \E e \in registry : e.node = n /\ e.state = "Connected"}
        IN  /\ prop'.sent = prop'.msg.item
            /\ Range(prop'.delivered) = connected
            /\ Range(prop'.unreached) = Range(L) \ connected
            /\ Len(prop'.delivered) + Len(prop'.unreached) = Len(L)
            /\ prop'.ok <=> prop'.unreached = <<>>
            /\ registry' = registry]_vars

PropagateSplitsExactly_witness ==
    /\ prop.msg.kind # "None"
    /\ prop.delivered # <<>>
    /\ prop.unreached # <<>>
    /\ ~prop.ok

\* the attempts spawned by the last Propagate command
PropSpawned == {prop.first + i : i \in 1..prop.n}

\* the pending payloads of an attempt that carries only the item of msg
CarriesOnly(options, msg) ==
    /\ options.pending_gossip = NoGossip
    /\ IF msg.kind = "Block"
       THEN /\ options.pending_block_announcement = msg.item
            /\ options.pending_fragment = None
       ELSE /\ options.pending_fragment = msg.item
            /\ options.pending_block_announcement = None

\* C4 as stated: every node reported unreached that can be dialed gets a new
\* connection attempt that carries the item.
PropagateConnectsEveryUnreached ==
    (prop.msg.kind # "None" /\ \A i \in DOMAIN prop.unreached :
                            /\ address(prop.unreached[i]) # None
                            /\ prop.unreached[i] # local_node_id)
        => \A i \in DOMAIN prop.unreached :
              \E a \in PropSpawned :
                 /\ attempts[a].node = prop.unreached[i]
                 /\ CarriesOnly(attempts[a].options, prop.msg)

\* C4, amended: the attempts spawned by a Propagate command are, in order,
\* for the first max_client_connections nodes reported unreached, leaving
\* out the nodes without an address and everything from the local node on;
\* each carries the item and nothing else; no reached node gets one.
PropagateConnectsTruncated ==
    prop.msg.kind # "None" =>
        LET tried    == SubSeq(prop.unreached, 1,
                               Min(Len(prop.unreached), max_client_connections))
            selfs    == {i \in DOMAIN tried : /\ tried[i] = local_node_id
                                              /\ address(tried[i]) # None}
            stop     == IF selfs = {} THEN Len(tried) + 1
                        ELSE CHOOSE i \in selfs : \A j \in selfs : i <= j
            expected == SelectSeq(SubSeq(tried, 1, stop - 1),
                                  LAMBDA n : address(n) # None)
        IN  /\ prop.n = Len(expected)
            /\ \A i \in 1..prop.n :
                 /\ attempts[prop.first + i].node = expected[i]
                 /\ CarriesOnly(attempts[prop.first + i].options, prop.msg)
            /\ \A a \in PropSpawned : attempts[a].node \notin Range(prop.delivered)

PropagateConnectsTruncated_witness ==
    /\ prop.msg.kind # "None"
    /\ Len(prop.unreached) > max_client_connections
    /\ prop.n = max_client_connections
    /\ \E a \in PropSpawned : attempts[a].pc = "dialing"

\* the strike attempt a is expected to have reported, once
Strike(a, reason) == <<[node |-> attempts[a].node, reason |-> reason]>>

\* attempt a takes a step of its failure handling in this transition
Concludes(a) == attempts[a].pc # "failed" /\ attempts'[a].pc = "failed"

MismatchIsRejected ==
    /\ [](\A a \in Atts :
            (attempts[a].remote # None /\ attempts[a].remote # attempts[a].node)
                => /\ attempts[a].pc \in {"rejecting", "failed"}
                   /\ attempts[a].err = None
                   /\ attempts[a].inc = 0 /\ attempts[a].dec = 0
                   /\ attempts[a].pc = "rejecting"
                        => attempts[a].reported = <<>> /\ attempts[a].removed = <<>>
                   /\ attempts[a].pc = "failed"
                        => /\ attempts[a].reported = Strike(a, "InvalidPublicId")
                           /\ attempts[a].removed = <<attempts[a].node>>
                           /\ EntriesOf(a) = {})
    /\ [][\A a \in Atts :
            /\ (attempts[a].remote = None /\ attempts'[a].remote # None
                /\ attempts'[a].remote # attempts[a].node)
                  => client_count' = client_count
            /\ (attempts[a].pc = "rejecting" /\ Concludes(a))
                  => /\ client_count' = client_count
                     /\ \A e \in registry' : e.node # attempts[a].node]_vars

MismatchIsRejected_witness ==
    \E a \in Atts :
        /\ attempts[a].remote = "X"
        /\ attempts[a].pc = "failed"
        /\ attempts[a].reported = Strike(a, "InvalidPublicId")
        /\ client_count = 1

\* C7: an attempt whose outcome is Canceled ends at once: it reports no
\* strike, never calls remove_peer and never touches client_count, and the
\* step that ends it leaves the registry (the superseding entry) as it is.
CanceledChangesNothing ==
    /\ [](\A a \in Atts :
            attempts[a].err = "Canceled"
                => /\ attempts[a].pc = "failed"
                   /\ attempts[a].reported = <<>>
                   /\ attempts[a].removed = <<>>
                   /\ attempts[a].inc = 0 /\ attempts[a].dec = 0)
    /\ [][\A a \in Atts :
            (attempts[a].err = None /\ attempts'[a].err = "Canceled")
                => /\ registry' = registry
                   /\ client_count' = client_count]_vars

CanceledChangesNothing_witness ==
    \E a, b \in Atts :
        /\ a # b
        /\ attempts[a].err = "Canceled"
        /\ attempts[a].pc = "failed"
        /\ Entry(attempts[a].node, "Connecting", b) \in registry
        /\ client_count = 1

\* C8: the evict_clients of every attempt is max(0, c + 1 - max_client_connections)
\* for the client_count c read when the attempt was created, whatever the
\* caller put in the options, and c + 1 stops at the largest counter value.
EvictClientsIsExcess ==
    /\ \A a \in Atts :
          attempts[a].options.evict_clients =
             Max(0, Min(attempts[a].count_at_create + 1, UsizeMax)
                       - max_client_connections)
    /\ \A c \in 0..UsizeMax :
          num_clients_to_bump(c) = Max(0, Min(c + 1, UsizeMax) - max_client_connections)

EvictClientsIsExcess_witness ==
    \E a \in Atts :
        /\ attempts[a].count_at_create >= max_client_connections
        /\ attempts[a].options.evict_clients > DefaultOptions.evict_clients
        /\ attempts[a].pc = "dialing"

\* the attempt, if any, spawned for the i-th gossip delivery
CarriesGossip(i) ==
    /\ glog[i].att \in Atts
    /\ attempts[glog[i].att].node = glog[i].target
    /\ attempts[glog[i].att].options.pending_gossip = glog[i].gossip
    /\ attempts[glog[i].att].options.pending_block_announcement = None
    /\ attempts[glog[i].att].options.pending_fragment = None

\* C9 as stated: a gossip batch whose delivery through the registry fails is
\* carried as pending_gossip by a new connection attempt to its target.
GossipIsNeverDropped ==
    \A i \in DOMAIN glog : glog[i].ok \/ CarriesGossip(i)

\* C9, amended: a gossip batch whose delivery fails is handed to
\* connect_and_propagate as the only pending payload; a connection attempt
\* to the target carries it when the target has an address (and is not the
\* local node), and the batch is dropped when the target has none.
GossipIsDeferredIfDialable ==
    \A i \in DOMAIN glog :
        /\ glog[i].gossip = <<"gossip", glog[i].target, glog[i].round>>
        /\ glog[i].ok => glog[i].att = 0
        /\ ~glog[i].ok =>
              IF address(glog[i].target) # None /\ glog[i].target # local_node_id
              THEN CarriesGossip(i)
              ELSE glog[i].att = 0

GossipIsDeferredIfDialable_witness ==
    \E i \in DOMAIN glog :
        /\ ~glog[i].ok
        /\ CarriesGossip(i)
        /\ \E e \in registry : e.node = glog[i].target /\ e.att # glog[i].att

\* the steps of periodic gossip round r that have run
RoundSteps(r) == {i \in DOMAIN glog : glog[i].round = r}

\* the targets round r has initiated gossip with, in order
RoundTargets(r) ==
    LET steps == SelectSeq([i \in DOMAIN glog |-> i], LAMBDA i : glog[i].round = r)
    IN  [k \in DOMAIN steps |-> glog[steps[k]].target]

\* the connection attempts that carry a batch of periodic gossip round r
RoundOpened(r) ==
    {a \in Atts : /\ Len(attempts[a].options.pending_gossip) = 3
                  /\ attempts[a].options.pending_gossip[3] = r}

\* the connection attempts opened by the startup gossip
StartupOpened == {a \in Atts : attempts[a].options.pending_gossip = SelfGossip}

\* C14 as stated: no gossip fan-out, periodic or at startup, contacts more
\* than max_client_connections peers.
GossipFanOutIsBounded ==
    /\ \A r \in 1..gossip.round :
          /\ Cardinality(RoundSteps(r)) <= max_client_connections
          /\ Cardinality(RoundOpened(r)) <= max_client_connections
    /\ Cardinality(StartupOpened) <= max_client_connections

\* C14, amended: a periodic gossip round initiates gossip with the first
\* max_client_connections peers of its view at most, in the view's order,
\* and opens connections only to peers it has initiated gossip with, one
\* each at most.
GossipRoundIsBounded ==
    /\ \A r \in 1..gossip.round :
          /\ Cardinality(RoundSteps(r)) <= max_client_connections
          /\ RoundOpened(r) = {glog[i].att : i \in RoundSteps(r)} \ {0}
          /\ Cardinality(RoundOpened(r)) <= Cardinality(RoundSteps(r))
    /\ (gossip.round > 0 /\ net_task = "running")
          => RoundTargets(gossip.round) \o gossip.targets
                = SubSeq(gossip.view, 1, Min(Len(gossip.view), max_client_connections))

GossipRoundIsBounded_witness ==
    /\ gossip.round > 0
    /\ Len(gossip.view) > max_client_connections
    /\ gossip.targets = <<>>
    /\ Cardinality(RoundSteps(gossip.round)) = max_client_connections
    /\ Cardinality(RoundOpened(gossip.round)) = max_client_connections

\* this step is taken by a scheduler (command loop, gossip interval, startup)
SchedulerStep == cmds' # cmds \/ gossip' # gossip \/ startup' # startup

\* the nodes the handler of the last Propagate command called
\* connect_and_propagate for, as far as it got
PropTried(p) == SubSeq(p.unreached, 1, Min(Len(p.unreached), max_client_connections))

\* the self-connect assertion: the local node, with an address, is a target
SelfAmong(nodes) ==
    \E i \in DOMAIN nodes : nodes[i] = local_node_id /\ address(nodes[i]) # None

\* C15: no step of a connection attempt, whatever its outcome, changes the
\* state of a scheduler task; the handling of a Propagate command and each
\* step of a gossip round complete, whatever the registry reports (all
\* reached, some or all unreached), and leave the task running for the next
\* command, target or tick; the one thing that stops a scheduler task is the
\* self-connect assertion, which is not a failure of a peer.
SchedulerSurvivesFailures ==
    [][/\ ~SchedulerStep => net_task' = net_task
       /\ cmds' # cmds =>
            /\ net_task = "running"
            /\ net_task' = "panicked" <=> (~prop'.ok /\ SelfAmong(PropTried(prop')))
            /\ gossip' = gossip
       /\ Len(glog') > Len(glog) =>
            LET step == glog'[Len(glog')]
            IN  /\ net_task = "running"
                /\ net_task' = "panicked" <=> (~step.ok /\ SelfAmong(<<step.target>>))
                /\ gossip'.targets = Tail(gossip.targets)
                /\ cmds' = cmds
       /\ gossip'.round # gossip.round => net_task' = "running"]_vars

SchedulerSurvivesFailures_witness ==
    /\ net_task = "running"
    /\ cmds = 1 /\ ~prop.ok /\ Len(prop.unreached) > prop.n
    /\ Len(glog) = 1 /\ ~glog[1].ok /\ glog[1].att # 0
    /\ \E a, b \in Atts :
          /\ attempts[a].pc = "failed" /\ attempts[a].err = "Connect"
          /\ attempts[b].pc = "failed" /\ attempts[b].remote = "X"

\* the caller of connect_and_propagate hits the self-connect assertion
HitsSelfAssertion ==
    \/ net_task # "panicked" /\ net_task' = "panicked"
    \/ startup # "panicked" /\ startup' = "panicked"

\* C18: no connection task is ever spawned for the local node, so the
\* registry holds no entry for it and no connection to it is counted; a
\* caller handed the local node (which has an address) as a target stops at
\* the self-connect assertion, in a step that leaves the registry and
\* client_count as they are.
SelfIsNeverDialed ==
    /\ [](/\ \A a \in Atts : attempts[a].node # local_node_id
          /\ \A e \in registry : e.node # local_node_id
          /\ client_count = Cardinality({a \in Established :
                                           attempts[a].node # local_node_id}))
    /\ [][/\ HitsSelfAssertion
                => /\ registry' = registry
                   /\ client_count' = client_count
                   /\ \A a \in DOMAIN attempts' : a \in Atts \/ attempts'[a].pc = "spawned"
          /\ (cmds' # cmds /\ ~prop'.ok /\ SelfAmong(PropTried(prop')))
                => net_task' = "panicked"
          /\ (Len(glog') > Len(glog) /\ ~glog'[Len(glog')].ok
                 /\ SelfAmong(<<glog'[Len(glog')].target>>))
                => net_task' = "panicked"]_vars

SelfIsNeverDialed_witness ==
    /\ net_task = "panicked"
    /\ startup = "panicked"
    /\ registry # {}
    /\ client_count = 1

\* C19: no connection task is ever spawned for a node without an address,
\* so nothing is registered, dialed, reported or removed for it; a caller
\* handed such a node goes on: the step of a scheduler (propagation, periodic
\* gossip, startup gossip) leaves the registry, client_count and the tasks
\* already spawned as they are, and spawns nothing when every node it is
\* handed lacks an address.
UnaddressedIsSkipped ==
    /\ [](/\ \A a \in Atts : address(attempts[a].node) # None
          /\ \A e \in registry : address(e.node) # None)
    /\ [][/\ SchedulerStep
                => /\ registry' = registry
                   /\ client_count' = client_count
                   /\ \A a \in Atts : attempts'[a] = attempts[a]
          /\ (cmds' # cmds /\ \A i \in DOMAIN PropTried(prop') :
                                   address(PropTried(prop')[i]) = None)
                => attempts' = attempts /\ net_task' = "running"
          /\ (Len(glog') > Len(glog) /\ address(glog'[Len(glog')].target) = None)
                => attempts' = attempts /\ net_task' = "running"]_vars

UnaddressedIsSkipped_witness ==
    /\ cmds = 1 /\ ~prop.ok /\ prop.n = 0
    /\ address(prop.unreached[1]) = None
    /\ startup = "done"
    /\ net_task = "running"
    /\ registry # {}
    /\ client_count = 1

\* the periodic gossip case of C19
UnaddressedGossip_witness ==
    \E i \in DOMAIN glog :
        /\ address(glog[i].target) = None
        /\ ~glog[i].ok /\ glog[i].att = 0
        /\ net_task = "running"
        /\ client_count = 1

\* C20 as stated: an attempt whose add_connecting fails for lack of capacity
\* ends there and does nothing else: its connect is never driven, it is never
\* counted, it reports no strike and calls no remove_peer, and the steps it
\* takes leave the registry and client_count as they are and start no
\* further attempt.
RegisterFailureDoesNothingElse ==
    /\ [](\A a \in Atts :
            attempts[a].err = "Registry"
                => /\ attempts[a].remote = None
                   /\ attempts[a].inc = 0 /\ attempts[a].dec = 0
                   /\ attempts[a].reported = <<>>
                   /\ attempts[a].removed = <<>>)
    /\ [][\A a \in Atts :
            (attempts'[a].err = "Registry" /\ attempts'[a] # attempts[a])
                => /\ registry' = registry
                   /\ client_count' = client_count
                   /\ Len(attempts') = Len(attempts)]_vars

\* C20, amended: an attempt whose add_connecting fails for lack of capacity
\* never drives its connect and is never counted, and the failing
\* registration changes nothing; the failure is then handled as any other
\* error but Canceled: the attempt reports one CannotConnect strike against
\* its node and calls remove_peer for it once, which removes whatever entry
\* the registry then holds for that node; no step of it changes client_count
\* or starts another attempt.
RegisterFailureIsReported ==
    /\ [](\A a \in Atts :
            attempts[a].err = "Registry"
                => /\ attempts[a].remote = None
                   /\ attempts[a].inc = 0 /\ attempts[a].dec = 0
                   /\ EntriesOf(a) = {}
                   /\ attempts[a].pc \in {"failing", "failed"}
                   /\ attempts[a].pc = "failing"
                        => attempts[a].reported = <<>> /\ attempts[a].removed = <<>>
                   /\ attempts[a].pc = "failed"
                        => /\ attempts[a].reported = Strike(a, "CannotConnect")
                           /\ attempts[a].removed = <<attempts[a].node>>)
    /\ [][\A a \in Atts :
            /\ (attempts[a].err = None /\ attempts'[a].err = "Registry")
                  => /\ attempts[a].pc = "spawned"
                     /\ registry' = registry
                     /\ client_count' = client_count
                     /\ Len(attempts') = Len(attempts)
            /\ (attempts[a].err = "Registry" /\ Concludes(a))
                  => /\ registry' = {e \in registry : e.node # attempts[a].node}
                     /\ client_count' = client_count
                     /\ Len(attempts') = Len(attempts)]_vars

RegisterFailureIsReported_witness ==
    \E a \in Atts :
        /\ attempts[a].err = "Registry"
        /\ attempts[a].pc = "failed"
        /\ attempts[a].reported = Strike(a, "CannotConnect")
        /\ Cardinality(registry) = max_connections
        /\ client_count = 1

\* C21: the handling of one Propagate command starts max_client_connections
\* connection attempts at most, each to one of the first
\* max_client_connections nodes of the list the registry reported unreached,
\* one per node at most; a node of the list beyond that bound gets none.
PropagateStartsAtMostLimit ==
    /\ [](prop.msg.kind # "None" =>
            /\ prop.n <= max_client_connections
            /\ \A a \in PropSpawned :
                  \E i \in DOMAIN prop.unreached :
                     /\ i <= max_client_connections
                     /\ attempts[a].node = prop.unreached[i]
            /\ \A a, b \in PropSpawned : attempts[a].node = attempts[b].node => a = b
            /\ \A i \in DOMAIN prop.unreached :
                  i > max_client_connections
                     => \A a \in PropSpawned : attempts[a].node # prop.unreached[i])
    /\ [][cmds' # cmds =>
            /\ Len(attempts') - Len(attempts) <= max_client_connections
            /\ prop'.first = Len(attempts)
            /\ prop'.n = Len(attempts') - Len(attempts)]_vars

PropagateStartsAtMostLimit_witness ==
    /\ prop.msg.kind # "None"
    /\ Len(prop.unreached) > max_client_connections
    /\ LET beyond == prop.unreached[max_client_connections + 1]
       IN  /\ address(beyond) # None
           /\ beyond # local_node_id
           /\ \A a \in Atts : attempts[a].node # beyond
    /\ prop.n = max_client_connections
    /\ prop.first > 0

\* C23 as stated: the failure handling of an attempt (after a transport
\* error or an identity mismatch) removes from the registry no entry but the
\* attempt's own: neither the Connecting entry of a newer attempt to the
\* same node nor the Connected entry of a connection established to it.
FailureRemovesOwnEntryOnly ==
    [][\A a \in Atts :
         (attempts[a].pc \in {"failing", "rejecting"} /\ Concludes(a))
             => registry \ registry' \subseteq EntriesOf(a)]_vars

----------------------------------------------------------------------------
(* Properties of the command loop (SpecInput) *)

\* an attempt has concluded: its task has ended
Concluded(a) == attempts[a].pc \in {"failed", "closed"}

\* C16: the command loop takes the messages in the order of the queue, one
\* per step: the n-th handling is that of the n-th message received, with its
\* own view, registry operation and attempts, which carry that message; the
\* handling leaves the attempts of earlier commands as they are, wherever
\* they stand, and no step of an attempt touches the queue or the loop.
InputIsHandledInOrder ==
    /\ [](Len(input.taken) = cmds)
    /\ [][/\ input'.taken \o input'.queue = input.taken \o input.queue
          /\ cmds' # cmds =>
                /\ cmds' = cmds + 1
                /\ prop'.msg = Head(input.queue)
                /\ input'.queue = Tail(input.queue)
                /\ input'.taken = Append(input.taken, Head(input.queue))
                /\ \A a \in DOMAIN attempts' :
                      IF a \in DOMAIN attempts
                      THEN attempts'[a] = attempts[a]
                      ELSE CarriesOnly(attempts'[a].options, Head(input.queue))
          /\ cmds' = cmds => input' = input /\ prop' = prop /\ net_task' = net_task]_vars

\* the attempt of the first command is still dialing when the second
\* command has been handled and its attempt has concluded
InputIsHandledInOrder_witness ==
    /\ cmds = 2
    /\ input.taken[1] # input.taken[2]
    /\ \E a, b \in Atts :
          /\ a <= prop.first /\ b > prop.first
          /\ CarriesOnly(attempts[a].options, input.taken[1])
          /\ CarriesOnly(attempts[b].options, input.taken[2])
          /\ attempts[a].pc = "dialing"
          /\ Concluded(b)

\* the attempts of two commands can conclude in the order of the commands too
InputInOrder_witness ==
    /\ cmds = 2
    /\ \E a, b \in Atts :
          /\ a <= prop.first /\ b > prop.first
          /\ Concluded(a)
          /\ attempts[b].pc = "dialing"

----------------------------------------------------------------------------
(* Properties of the admission control (SpecEvict) *)

\* C22 as stated: with every eviction carried out when the attempt is
\* registered, client_count never exceeds max_client_connections.
ClientCountWithinLimit == client_count <= max_client_connections

----------------------------------------------------------------------------
(* Properties of the counter's methods (SpecCounter) *)

\* C17: dec_client_count called while client_count is 0 fails its assertion:
\* the calling task stops there, for good, and in no other case; the
\* fetch_sub has run before the assertion, so the counter has wrapped.
DecAtZeroIsFatal ==
    [][\A a \in Atts :
         /\ (attempts[a].pc = "established" /\ attempts'[a].pc # "established")
               => /\ attempts'[a].pc = (IF client_count = 0 THEN "panicked" ELSE "closed")
                  /\ client_count' = (IF client_count = 0 THEN UsizeMax
                                                           ELSE client_count - 1)
         /\ attempts[a].pc = "panicked" => attempts'[a] = attempts[a]]_vars

DecAtZeroIsFatal_witness ==
    \E a, b \in Atts :
        /\ attempts[a].pc = "panicked"
        /\ attempts[b].pc = "closed"
        /\ client_count = UsizeMax - 1

----------------------------------------------------------------------------
(* Properties of bootstrap (SpecBoot) *)

\* C10: bootstrap over an empty trusted-peer list returns Ok(true) without
\* attempting any peer; when the first peer of the shuffled order succeeds it
\* returns Ok(true) after that one attempt.
BootstrapStopsAtFirst ==
    boot.pc = "done" =>
        /\ boot.trusted_peers = <<>>
              => boot.returned = [ok |-> TRUE, value |-> TRUE] /\ boot.attempted = <<>>
        /\ (boot.results # <<>> /\ boot.results[1] = "Ok")
              => /\ boot.returned = [ok |-> TRUE, value |-> TRUE]
                 /\ boot.attempted = <<boot.shuffled[1]>>
                 /\ Len(boot.results) = 1

BootstrapStopsAtFirst_witness ==
    /\ boot.pc = "done"
    /\ Len(boot.shuffled) > 1
    /\ boot.results = <<"Ok">>
    /\ boot.returned.value

\* the empty configuration of C10 is reached as well
BootstrapEmpty_witness ==
    /\ boot.pc = "done"
    /\ boot.trusted_peers = <<>>
    /\ boot.returned.value

\* the peers of the trial order that bootstrap has not attempted yet
BootRemaining == SubSeq(boot.shuffled, Len(boot.attempted) + 1, Len(boot.shuffled))

\* C11: a failing peer (unreachable, or any other error) never ends the
\* bootstrap loop: the peers attempted are a prefix of the trial order, each
\* attempted once, every attempt before the last one failed, and after a
\* failure the rest of the order is still to be attempted; when every peer
\* has failed bootstrap has attempted the whole order and returns Ok(false);
\* it never returns an Err.
BootstrapContinuesOnFailure ==
    /\ boot.attempted = SubSeq(boot.shuffled, 1, Len(boot.attempted))
    /\ Len(boot.results) = Len(boot.attempted)
    /\ \A i \in DOMAIN boot.results : i < Len(boot.results) => boot.results[i] # "Ok"
    /\ (boot.pc = "loop" /\ boot.results # <<>>
            /\ boot.results[Len(boot.results)] # "Ok")
          => boot.rest = BootRemaining
    /\ boot.pc = "done" => boot.returned.ok
    /\ (boot.pc = "done" /\ boot.results # <<>>
            /\ \A i \in DOMAIN boot.results : boot.results[i] # "Ok")
          => /\ boot.attempted = boot.shuffled
             /\ boot.returned = [ok |-> TRUE, value |-> FALSE]

BootstrapContinuesOnFailure_witness ==
    /\ boot.pc = "done"
    /\ Len(boot.attempted) = MaxTrusted - 1
    /\ boot.results = <<"Connect", "Other">>
    /\ boot.returned = [ok |-> TRUE, value |-> FALSE]

----------------------------------------------------------------------------
(* Properties of fetch_block (SpecFetch) *)

\* the positions of the trial order whose peer delivers the block if asked
Succeeding == {i \in DOMAIN boot.shuffled : boot.answers[boot.shuffled[i]] \in Blocks}

\* C12: fetch_block over an empty trusted-peer list returns NoTrustedPeers
\* and never attempts a peer; over a non-empty list of which every peer
\* fails it returns CouldNotDownloadBlock with the requested hash, having
\* attempted every peer of the trial order once, in that order.
FetchBlockFailsTyped ==
    /\ boot.trusted_peers = <<>>
          => /\ boot.attempted = <<>>
             /\ boot.pc = "done" => boot.returned = NoTrustedPeers
    /\ (boot.pc = "done" /\ boot.trusted_peers # <<>> /\ Succeeding = {})
          => /\ boot.returned = CouldNotDownloadBlock(boot.hash)
             /\ boot.attempted = boot.shuffled
             /\ Len(boot.results) = Len(boot.shuffled)

FetchBlockFailsTyped_witness ==
    /\ boot.pc = "done"
    /\ Len(boot.attempted) = MaxTrusted
    /\ \E i, j \in DOMAIN boot.results :
          boot.results[i] = "Connect" /\ boot.results[j] = "Other"
    /\ boot.returned = CouldNotDownloadBlock(boot.hash)

\* the other case of C12: the empty configuration has returned
FetchBlockNoPeers_witness ==
    /\ boot.pc = "done"
    /\ boot.trusted_peers = <<>>
    /\ boot.returned = NoTrustedPeers

\* C13: fetch_block returns Ok(block) exactly when some peer of the trial
\* order delivers the block; the block is the one of the first such peer,
\* the peers before it were each attempted once and failed, and no peer
\* after it is attempted.
FetchBlockStopsAtFirst ==
    /\ boot.attempted = SubSeq(boot.shuffled, 1, Len(boot.attempted))
    /\ Len(boot.results) = Len(boot.attempted)
    /\ \A i \in DOMAIN boot.results : boot.results[i] = boot.answers[boot.attempted[i]]
    /\ boot.pc = "done" =>
          /\ boot.returned[1] = "Ok" <=> Succeeding # {}
          /\ Succeeding # {} =>
                LET first == CHOOSE i \in Succeeding : \A j \in Succeeding : i <= j
                IN  /\ boot.returned = Ok(boot.answers[boot.shuffled[first]])
                    /\ boot.attempted = SubSeq(boot.shuffled, 1, first)
                    /\ \A i \in 1..(first - 1) : boot.results[i] \notin Blocks

FetchBlockStopsAtFirst_witness ==
    /\ boot.pc = "done"
    /\ Len(boot.shuffled) = MaxTrusted
    /\ Len(boot.attempted) = 2
    /\ boot.results[1] \notin Blocks
    /\ boot.returned = Ok(boot.results[2])
    /\ boot.answers[boot.shuffled[3]] \in Blocks
    /\ boot.answers[boot.shuffled[3]] # boot.results[2]

----------------------------------------------------------------------------
(* Properties of both startup calls (SpecStartup) *)

\* the trusted peers whose address resolves, in the configured order
Resolvable == SelectSeq(boot.trusted_peers, LAMBDA addr : to_socketaddr(addr) # None)

\* the call has got a useful answer from the i-th peer it attempted
Succeeded(i) == boot.results[i] = "Ok" \/ boot.results[i] \in Blocks

\* the call has gone through trusted_peers_shuffled
Shuffled == boot.pc = "loop" \/ (boot.pc = "done" /\ boot.trusted_peers # <<>>)

\* C24: when no address of a non-empty list resolves no peer is attempted,
\* bootstrap returns Ok(false) and fetch_block returns CouldNotDownloadBlock
\* for the hash; the peers a call goes through are exactly the trusted peers
\* whose address resolves, each at most once: the ones attempted are the
\* peers of that order up to the first that succeeds, all of them when none
\* does.
AttemptsResolvableUpToSuccess ==
    /\ (boot.pc = "done" /\ boot.trusted_peers # <<>> /\ Resolvable = <<>>)
          => /\ boot.attempted = <<>>
             /\ boot.fn = "bootstrap" => boot.returned = [ok |-> TRUE, value |-> FALSE]
             /\ boot.fn = "fetch_block" => boot.returned = CouldNotDownloadBlock(boot.hash)
    /\ Shuffled
          => /\ Range(boot.shuffled) = Range(Resolvable)
             /\ Len(boot.shuffled) = Len(Resolvable)
    /\ ~Shuffled => boot.attempted = <<>>
    /\ boot.attempted = SubSeq(boot.shuffled, 1, Len(boot.attempted))
    /\ \A i, j \in DOMAIN boot.attempted : boot.attempted[i] = boot.attempted[j] => i = j
    /\ \A i \in DOMAIN boot.results : Succeeded(i) => i = Len(boot.results)
    /\ boot.pc = "done"
          => \/ boot.attempted = boot.shuffled
             \/ boot.results # <<>> /\ Succeeded(Len(boot.results))

AttemptsResolvableUpToSuccess_witness ==
    /\ boot.fn = "fetch_block"
    /\ boot.pc = "done"
    /\ boot.trusted_peers # <<>>
    /\ Resolvable = <<>>
    /\ boot.attempted = <<>>
    /\ boot.returned = CouldNotDownloadBlock(boot.hash)

\* the bootstrap case of C24: no address resolves, Ok(false)
BootstrapUnresolvable_witness ==
    /\ boot.fn = "bootstrap"
    /\ boot.pc = "done"
    /\ boot.trusted_peers # <<>>
    /\ Resolvable = <<>>
    /\ boot.returned = [ok |-> TRUE, value |-> FALSE]

\* some addresses resolve and some do not: the ones that do are attempted
MixedAddresses_witness ==
    /\ boot.pc = "done"
    /\ Len(boot.trusted_peers) = MaxTrusted
    /\ Len(boot.attempted) = MaxTrusted - 1
    /\ Len(Resolvable) = MaxTrusted - 1

====
